---------------------------- MODULE Spec2Model ----------------------------
(***************************************************************************)
(* SynthiaCityscapes dataset driver (xview/datasets/synthia_cityscapes.py): *)
(* construction over a persisted train/test split, _preprocessing (label    *)
(* conversion and split generation) and the _get_data pipeline (label       *)
(* remapping, augmentation, dimension normalisation).                       *)
(*                                                                          *)
(* The training experiment (experiments/training.py): my_main and           *)
(* train_network around the network's context, fit and export_weights.      *)
(*                                                                          *)
(* Three specifications share the module:                                   *)
(*   SpecSplit  the file system, __init__ and _preprocessing;               *)
(*   SpecData   one driver serving _get_data calls, stage by stage;         *)
(*   SpecTrain  one run of my_main, call by call.                           *)
(***************************************************************************)
EXTENDS Integers, Sequences, FiniteSets, TLC

VARIABLES
    dirs,       \* the directories that exist (a set of paths)
    files,      \* the files that exist: path -> content
    driver,     \* the SynthiaCityscapes instance last constructed, or NoDriver
    last,       \* outcome of the last call: what it raised, printed and computed
    runs,       \* number of _preprocessing calls made so far
    genCount,   \* per sequence: how many times a split was generated for it
    sample,     \* the _get_data call in progress: image size and training_format
    pc,         \* position of the _get_data call
    blob,       \* the blob under construction: modality -> array
    draws,      \* the random draws made by the call so far
    stages,     \* the stages of the call that have run, in order
    err,        \* the exception that ended the call, "none" otherwise
    tpc,        \* position of my_main / train_network
    net,        \* the network context: "none", "open" or "released"
    outdir,     \* the run's output directory: whether it exists, the names in it
    timeout,    \* the local `timeout` of train_network, "unbound" before line 63/66
    fitted,     \* how net.fit ended, "no" before it is called
    pending,    \* the names of the artifact loop's listing not yet visited
    calls,      \* the calls made on the collaborators so far, in order
    raised      \* the exception propagating out of my_main, "none" otherwise

splitVars == <<dirs, files, last, runs, genCount>>
dataVars  == <<sample, pc, blob, draws, stages, err>>
trainVars == <<tpc, net, outdir, timeout, fitted, pending, calls, raised>>
vars      == <<dirs, files, driver, last, runs, genCount, sample, pc, blob, draws, stages, err,
               tpc, net, outdir, timeout, fitted, pending, calls, raised>>

-----------------------------------------------------------------------------
(* Bounds of the model.                                                     *)

\* Largest number of label images in a sequence's Omni_F directory.
MaxIds == 6
\* Number of _preprocessing calls explored.
MaxRuns == 2
\* Resolution of the scale factors drawn: the multiples of 1/ScaleDen inside
\* the range, besides the two ends of the range.
ScaleDen == 4

-----------------------------------------------------------------------------
(* Paths.  A path is a sequence of components; a component is the sequence  *)
(* of its '.'-separated pieces, so "a.png" is <<"a", "png">>.  A path is    *)
(* absolute when it starts with the root component.                         *)

RootC == <<"/">>
C(s) == <<s>>

IsAbs(p) == Len(p) > 0 /\ p[1] = RootC

\* os.path.join(a, b): an absolute b discards a.
Join(a, b) == IF IsAbs(b) THEN b ELSE a \o b

\* os.path.join(a, b, c)
Join3(a, b, c) == Join(Join(a, b), c)

\* filename.split('.')[0]
Stem(name) == name[1]

\* np.save(path, array) appends the extension .npy to the file name.
NpySaveName(stem) == <<stem, "npy">>

IsPrefix(p, q) == Len(p) <= Len(q) /\ SubSeq(q, 1, Len(p)) = p

Parent(p) == SubSeq(p, 1, Len(p) - 1)

\* An existence test that every path passes.
PathExistsAlways(ds, fs, p) == TRUE

\* os.path.exists
PathExists(ds, fs, p) == p \in ds \/ p \in DOMAIN fs

\* os.listdir(d): the names directly inside d.
ListDir(ds, fs, d) ==
    {p[Len(p)] : p \in {q \in (DOMAIN fs) \cup ds : Len(q) = Len(d) + 1 /\ IsPrefix(d, q)}}

\* A removal that leaves the files of the tree behind.
RmTreeFilesKeep(fs, d) == fs

\* shutil.rmtree(d)
RmTreeDirs(ds, d) == {q \in ds : ~IsPrefix(d, q)}
RmTreeFiles(fs, d) == [q \in {r \in DOMAIN fs : ~IsPrefix(d, r)} |-> fs[q]]

\* os.makedirs(d): d and every missing ancestor.
MakeDirs(ds, d) == ds \cup {SubSeq(d, 1, i) : i \in 1..Len(d)}

\* Writing (creating or truncating) one file.
WriteFile(fs, p, content) ==
    [q \in (DOMAIN fs) \cup {p} |-> IF q = p THEN content ELSE fs[q]]

-----------------------------------------------------------------------------
(* The dataset on disk.                                                     *)

RAND_CITYSCAPES == "RAND_CITYSCAPES"
OtherSequence == "SYNTHIA-SEQS-01"
Sequences == {RAND_CITYSCAPES, OtherSequence}

Directions == <<"F", "B", "L", "R">>

SplitFileName == <<"train_test_split", "json">>
\* The literal '/train_test_split.json' of line 97: an absolute path.
AbsSplitFileName == <<RootC, SplitFileName>>

DataRoot == <<RootC, C("data")>>
MissingRoot == <<RootC, C("nodata")>>
BasePaths == {DataRoot, MissingRoot}

IdNames == <<"a", "b", "c", "d", "e", "f", "g", "h">>
Ids(n) == {IdNames[i] : i \in 1..n}

\* 'Stereo_Right/Omni_{}'.format(direction)
OmniName == [F |-> "Omni_F", B |-> "Omni_B", L |-> "Omni_L", R |-> "Omni_R"]
OmniDir(direction) == <<C("Stereo_Right"), C(OmniName[direction])>>

\* path.join(rootpath, pref, 'Stereo_Right/Omni_{}'.format(direction)) with
\* rootpath = path.join(base_path, sequence, 'GT')
GtDir(base, sequence, pref, direction) ==
    Join3(Join3(base, <<C(sequence)>>, <<C("GT")>>), <<C(pref)>>, OmniDir(direction))

\* Contents of files.
PngFile(id) == [kind |-> "png", data |-> id]
NpyFile(data) == [kind |-> "npy", data |-> data]
JsonSplit(trainset, testset) == [kind |-> "json", trainset |-> trainset, testset |-> testset]

\* one_channel_image_reader(path, np.uint8): the image's pixels as an array.
OneChannelImageReader(fs, p) == fs[p].data

\* The orientations a sequence is recorded in.
DirectionsOnDisk(sequence) ==
    IF sequence = RAND_CITYSCAPES THEN {"F"} ELSE {"F", "B", "L", "R"}

\* The label images of a data root: three in the base collection; in the
\* other sequence n in the front orientation and one in each other orientation.
LabelFiles(n) ==
    {Join(GtDir(DataRoot, RAND_CITYSCAPES, "LABELS", "F"), <<<<id, "png">>>>) : id \in Ids(3)}
    \cup {Join(GtDir(DataRoot, OtherSequence, "LABELS", "F"), <<<<id, "png">>>>) : id \in Ids(n)}
    \cup {Join(GtDir(DataRoot, OtherSequence, "LABELS", d), <<<<"a", "png">>>>) :
            d \in DirectionsOnDisk(OtherSequence) \ {"F"}}

\* The label directories of the data root.
LabelDirs ==
    UNION {{GtDir(DataRoot, s, "LABELS", d) : d \in DirectionsOnDisk(s)} : s \in Sequences}

Ancestors(p) == {SubSeq(p, 1, i) : i \in 1..(Len(p) - 1)}

\* A conversion output left in the other sequence by an earlier run; the base
\* collection has not been converted yet.
StaleFiles ==
    {Join(GtDir(DataRoot, OtherSequence, "LABELS_NPY", "F"), <<<<"stale", "npy">>>>)}

SplitPath(base, sequence) == Join3(base, <<C(sequence)>>, <<SplitFileName>>)

\* Split files found on disk before the program runs.  The second lists an
\* identifier that has no label image.
PersistedSplits ==
    { JsonSplit(<<"a", "b">>, <<"c">>), JsonSplit(<<"c", "a">>, <<"zz">>) }

NoDriver == [alive |-> FALSE]
NoSplit == JsonSplit(<<>>, <<>>)
NoCall == [op |-> "none", exc |-> "none", excPath |-> <<>>, generated |-> FALSE,
           split |-> NoSplit, seq |-> "", printed |-> <<>>]

-----------------------------------------------------------------------------
(* Configuration.  A configuration value is [on, val]: `on` is its Python   *)
(* truth value (False, 0 and an absent default are falsy), `val` the number *)
(* or the [min, max] pair.  Scale and gamma bounds are rationals <<n, d>>.  *)

Off(val) == [on |-> FALSE, val |-> val]
On(val) == [on |-> TRUE, val |-> val]
Flag(b) == [on |-> b, val |-> 0]
NoRange == <<<<0, 1>>, <<0, 1>>>>

\* Lines 41-49: the default configuration.
DefaultConfig ==
    [augmentation |->
        [crop |-> On(480),
         scale |-> On(<<<<7, 10>>, <<15, 10>>>>),
         vflip |-> Flag(TRUE),
         hflip |-> Flag(FALSE),
         gamma |-> On(<<<<3, 10>>, <<2, 1>>>>)]]

\* dict.update: every key of `other` replaces the key of `config` whole.
DictUpdate(config, other) ==
    [k \in (DOMAIN config) \cup (DOMAIN other) |->
        IF k \in DOMAIN other THEN other[k] ELSE config[k]]

\* self.base_path, read by _preprocessing: the dataset root the driver was
\* constructed over.
SelfBasePath(d) == d.base_path

\* The descriptor list built in reverse order.
DescriptorsReversed(filenames) ==
    [i \in 1..Len(filenames) |-> [image_name |-> filenames[Len(filenames) + 1 - i]]]

\* Lines 65-66: the descriptor lists of a loaded split.
Descriptors(filenames) == [i \in 1..Len(filenames) |-> [image_name |-> filenames[i]]]

\* Lines 58-69: the instance __init__ builds once the root is known to exist
\* and the split file has been read.
NewDriver(base_path, data_config, split) ==
    [alive |-> TRUE,
     config |-> DictUpdate(DefaultConfig, data_config),
     base_path |-> base_path,
     basepath |-> Join(base_path, <<C(RAND_CITYSCAPES)>>),
     trainset |-> Descriptors(split.trainset),
     testset |-> Descriptors(split.testset),
     modalities |-> <<"rgb", "depth", "labels">>]

\* Keyword arguments a caller constructs the driver with in SpecSplit.
SplitDataConfigs == { <<>> }

\* SynthiaCityscapes.__init__(base_path, **data_config)
Construct(base_path, data_config) ==
    LET basepath == Join(base_path, <<C(RAND_CITYSCAPES)>>)
        splitfile == Join(basepath, <<SplitFileName>>)
    IN  /\ IF ~PathExists(dirs, files, base_path)
           THEN /\ last' = [NoCall EXCEPT !.op = "__init__", !.exc = "IOError",
                                          !.excPath = base_path,
                                          !.printed = <<"ERROR: Path to SYNTHIA dataset does not exist.">>]
                /\ driver' = driver
           ELSE IF splitfile \notin DOMAIN files
           THEN /\ last' = [NoCall EXCEPT !.op = "__init__", !.exc = "IOError",
                                          !.excPath = splitfile]
                /\ driver' = driver
           ELSE /\ last' = [NoCall EXCEPT !.op = "__init__"]
                /\ driver' = NewDriver(base_path, data_config, files[splitfile])
        /\ UNCHANGED <<dirs, files, runs, genCount>>
        /\ UNCHANGED <<dataVars, trainVars>>

-----------------------------------------------------------------------------
(* _preprocessing.                                                          *)

ConvResult(ds, fs, exc, excPath) == [dirs |-> ds, files |-> fs, exc |-> exc, excPath |-> excPath]

\* Lines 74-89: the conversion loop, from orientation Directions[i] on.
RECURSIVE Convert(_, _, _, _, _)
Convert(ds, fs, base, sequence, i) ==
    IF i > Len(Directions) THEN ConvResult(ds, fs, "none", <<>>)
    ELSE
    LET inpath == GtDir(base, sequence, "LABELS", Directions[i])
        outpath == GtDir(base, sequence, "LABELS_NPY", Directions[i])
        had == PathExists(ds, fs, outpath)
        ds1 == MakeDirs(IF had THEN RmTreeDirs(ds, outpath) ELSE ds, outpath)
        fs1 == IF had THEN RmTreeFiles(fs, outpath) ELSE fs
    IN  IF inpath \notin ds1 THEN ConvResult(ds1, fs1, "OSError", inpath)
        ELSE
        LET names == ListDir(ds1, fs1, inpath)
            saved == {Join(outpath, <<NpySaveName(Stem(n))>>) : n \in names}
            fs2 == [q \in (DOMAIN fs1) \cup saved |->
                      IF q \in saved
                      THEN LET n == CHOOSE m \in names : NpySaveName(Stem(m)) = q[Len(q)]
                           IN  NpyFile(OneChannelImageReader(fs1, Join(inpath, <<n>>)))
                      ELSE fs1[q]]
        IN  IF sequence = RAND_CITYSCAPES
            THEN ConvResult(ds1, fs2, "none", <<>>)
            ELSE Convert(ds1, fs2, base, sequence, i + 1)

\* os.listdir returns the names in an arbitrary but fixed order.
RECURSIVE ListingOrder(_)
ListingOrder(S) ==
    IF S = {} THEN <<>>
    ELSE LET x == CHOOSE y \in S : TRUE IN <<x>> \o ListingOrder(S \ {x})

\* The shuffles drawn for train_test_split: of the n! permutations of the
\* listing, its n rotations and their reversals, so that every name can fall
\* in either part and at either end.
Shuffles(S) ==
    LET l == ListingOrder(S)
        n == Len(l)
    IN  {[i \in 1..n |-> l[((i - 1 + r) % n) + 1]] : r \in 0..(n - 1)}
        \cup {[i \in 1..n |-> l[((n - i + r) % n) + 1]] : r \in 0..(n - 1)}

\* The test-set size rounded down instead of up.
TestSizeFloor(n) == (2 * n) \div 10

\* ceil(0.2 * n): the integer test-set size sklearn derives from test_size.
TestSize(n) == (2 * n + 9) \div 10

\* sklearn's train_test_split(filenames, test_size=0.2): the possible results.
\* The listing is shuffled; the first TestSize entries of the shuffle are the
\* test set and the remaining ones the train set.
TrainTestSplit(filenames) ==
    LET n == Cardinality(filenames)
        k == TestSize(n)
    IN  {[trainset |-> [i \in 1..(n - k) |-> Stem(p[k + i])],
          testset |-> [i \in 1..k |-> Stem(p[i])]] : p \in Shuffles(filenames)}

\* Whether train_test_split raises ValueError on n samples: always on none,
\* and on an empty train set only in the sklearn releases that refuse one.
TrainTestSplitRaises(n) ==
    IF n = 0 THEN {TRUE}
    ELSE IF n - TestSize(n) = 0 THEN {TRUE, FALSE}
    ELSE {FALSE}

\* Line 97: path.join(self.base_path, sequence, '/train_test_split.json')
SplitWritePath(base, sequence) == Join3(base, <<C(sequence)>>, AbsSplitFileName)

\* SynthiaCityscapes._preprocessing(sequence).  Opening the split file for
\* writing either succeeds or is refused by the operating system.
Preprocessing(sequence) ==
    /\ driver.alive
    /\ runs < MaxRuns
    /\ runs' = runs + 1
    /\ LET base == SelfBasePath(driver)
           conv == Convert(dirs, files, base, sequence, 1)
           call == [NoCall EXCEPT !.op = "_preprocessing", !.seq = sequence]
           listing == ListDir(conv.dirs, conv.files, GtDir(base, sequence, "LABELS", "F"))
       IN  /\ dirs' = conv.dirs
           /\ IF conv.exc # "none"
              THEN /\ files' = conv.files
                   /\ last' = [call EXCEPT !.exc = conv.exc, !.excPath = conv.excPath]
                   /\ UNCHANGED genCount
              ELSE IF PathExists(conv.dirs, conv.files, SplitPath(base, sequence))
              THEN /\ files' = conv.files
                   /\ last' = call
                   /\ UNCHANGED genCount
              ELSE \E raises \in TrainTestSplitRaises(Cardinality(listing)) :
                   IF raises
                   THEN /\ files' = conv.files
                        /\ last' = [call EXCEPT !.exc = "ValueError",
                                       !.printed = <<"INFO: Creating Train-Test-Split">>]
                        /\ UNCHANGED genCount
                   ELSE
                   \E split \in TrainTestSplit(listing) :
                   \E writable \in BOOLEAN :
                     /\ genCount' = [genCount EXCEPT ![sequence] = @ + 1]
                     /\ IF writable
                        THEN /\ files' = WriteFile(conv.files, SplitWritePath(base, sequence),
                                                   JsonSplit(split.trainset, split.testset))
                             /\ last' = [call EXCEPT !.generated = TRUE,
                                            !.split = JsonSplit(split.trainset, split.testset),
                                            !.printed = <<"INFO: Creating Train-Test-Split">>]
                        ELSE /\ files' = conv.files
                             /\ last' = [call EXCEPT !.generated = TRUE,
                                            !.split = JsonSplit(split.trainset, split.testset),
                                            !.exc = "IOError",
                                            !.excPath = SplitWritePath(base, sequence),
                                            !.printed = <<"INFO: Creating Train-Test-Split">>]
    /\ UNCHANGED driver
    /\ UNCHANGED <<dataVars, trainVars>>

-----------------------------------------------------------------------------
(* SpecSplit: the file system, construction and preprocessing.              *)

IdleSample == [h |-> 0, w |-> 0, training_format |-> FALSE]
EmptyArray == [shape |-> <<0, 0>>, px |-> <<>>]
IdleBlob == [rgb |-> EmptyArray, depth |-> EmptyArray, labels |-> EmptyArray]
NoDraws == [k |-> <<0, 1>>, h_c |-> 0, w_c |-> 0, hflip |-> 0, vflip |-> 0, gamma |-> <<0, 1>>]

DataIdle ==
    /\ sample = IdleSample
    /\ pc = "idle"
    /\ blob = IdleBlob
    /\ draws = NoDraws
    /\ stages = <<>>
    /\ err = "none"

TrainIdle ==
    /\ tpc = "idle"
    /\ net = "none"
    /\ outdir = [exists |-> FALSE, names |-> {}]
    /\ timeout = "unbound"
    /\ fitted = "no"
    /\ pending = {}
    /\ calls = <<>>
    /\ raised = "none"

\* The disk before the program runs: n label images per orientation, a stale
\* conversion output, maybe a split file per sequence.
InitSplit ==
    /\ \E n \in 0..MaxIds :
       \E randSplit \in PersistedSplits \cup {NoSplit}, otherSplit \in BOOLEAN :
         LET fileset == LabelFiles(n) \cup StaleFiles
             splits == (IF randSplit = NoSplit THEN {}
                        ELSE {SplitPath(DataRoot, RAND_CITYSCAPES)})
                       \cup (IF otherSplit THEN {SplitPath(DataRoot, OtherSequence)} ELSE {})
         IN  /\ files = [q \in fileset \cup splits |->
                           IF q = SplitPath(DataRoot, RAND_CITYSCAPES) THEN randSplit
                           ELSE IF q = SplitPath(DataRoot, OtherSequence)
                                THEN JsonSplit(<<"b">>, <<"a">>)
                           ELSE IF q[Len(q)][2] = "png" THEN PngFile(<<Stem(q[Len(q)]), q[Len(q) - 1]>>)
                           ELSE NpyFile(<<"stale">>)]
             /\ dirs = UNION {Ancestors(q) : q \in fileset}
                       \cup UNION {Ancestors(q) \cup {q} : q \in LabelDirs}
    /\ driver = NoDriver
    /\ last = NoCall
    /\ runs = 0
    /\ genCount = [s \in Sequences |-> 0]
    /\ DataIdle
    /\ TrainIdle

NextSplit ==
    \/ \E b \in BasePaths, dc \in SplitDataConfigs : Construct(b, dc)
    \/ \E s \in Sequences : Preprocessing(s)

SpecSplit == InitSplit /\ [][NextSplit]_vars

-----------------------------------------------------------------------------
(* Properties of the split (checked under SpecSplit).                       *)

Range(f) == {f[i] : i \in DOMAIN f}

\* The identifiers of a sequence's front-orientation label directory.
FrontIds(sequence) ==
    {Stem(n) : n \in ListDir(dirs, files, GtDir(DataRoot, sequence, "LABELS", "F"))}

\* C1: once _preprocessing has generated a split for a sequence, the split is
\* persisted as that sequence's split file, and no later run generates
\* another one for the sequence.
C1_SplitStableAcrossRuns ==
    \A s \in Sequences :
        /\ genCount[s] <= 1
        /\ (last.generated /\ last.seq = s /\ last.exc = "none")
              => /\ SplitPath(DataRoot, s) \in DOMAIN files
                 /\ files[SplitPath(DataRoot, s)] = last.split

\* C2: a construction step writes nothing to disk and generates no split, and
\* when it succeeds the driver's trainset and testset are the descriptors of
\* the identifiers under the split file's 'trainset' and 'testset' keys, in
\* the file's order, whether or not they have label images.
C2_ConstructLoadsSplit ==
    [][last'.op = "__init__" =>
         /\ files' = files
         /\ dirs' = dirs
         /\ genCount' = genCount
         /\ last'.generated = FALSE
         /\ last'.exc = "none" =>
              LET f == files[SplitPath(driver'.base_path, RAND_CITYSCAPES)]
              IN  /\ driver'.alive
                  /\ Len(driver'.trainset) = Len(f.trainset)
                  /\ Len(driver'.testset) = Len(f.testset)
                  /\ \A i \in 1..Len(f.trainset) :
                        driver'.trainset[i] = [image_name |-> f.trainset[i]]
                  /\ \A i \in 1..Len(f.testset) :
                        driver'.testset[i] = [image_name |-> f.testset[i]]]_vars

\* A driver constructed over a split file that lists an identifier without a
\* label image.
C2_Witness ==
    /\ last.op = "__init__"
    /\ last.exc = "none"
    /\ driver.alive
    /\ driver.trainset = <<[image_name |-> "c"], [image_name |-> "a"]>>
    /\ driver.testset = <<[image_name |-> "zz"]>>

\* C10: a generated split partitions the identifiers of the sequence's
\* front-orientation label directory: no identifier is repeated, trainset and
\* testset are disjoint, together they are exactly the directory's
\* identifiers, and the testset holds a fifth of them, rounded up.
C10_GeneratedSplitPartitions ==
    last.generated =>
        LET ids == FrontIds(last.seq)
            n == Cardinality(ids)
            tr == last.split.trainset
            te == last.split.testset
        IN  /\ Cardinality(Range(tr)) = Len(tr)
            /\ Cardinality(Range(te)) = Len(te)
            /\ Range(tr) \cap Range(te) = {}
            /\ Range(tr) \cup Range(te) = ids
            /\ 5 * Len(te) >= n
            /\ 5 * (Len(te) - 1) < n
            /\ Len(tr) = n - Len(te)

\* A split generated over six identifiers: two in the testset, four in the
\* trainset.
C10_Witness ==
    /\ last.generated
    /\ Len(last.split.testset) = 2
    /\ Len(last.split.trainset) = 4

\* C11: a construction step writes nothing to disk and ends in one of three
\* ways: a driver over a root that exists; an IOError that carries the root,
\* which does not exist, with the error message printed and no driver built;
\* or an IOError on the split file of a root that exists.  So a construction
\* over a missing root raises on the root itself, before the split file is
\* looked at and before any trainset or testset is set, and no driver is ever
\* alive over a missing root.
C11_MissingRootRaises ==
    [][last'.op = "__init__" =>
         /\ files' = files
         /\ dirs' = dirs
         /\ \/ /\ last'.exc = "none"
               /\ driver'.alive
               /\ driver'.base_path \in dirs
            \/ /\ last'.exc = "IOError"
               /\ driver' = driver
               /\ \/ /\ last'.excPath \in BasePaths
                     /\ last'.excPath \notin dirs
                     /\ last'.excPath \notin DOMAIN files
                     /\ last'.printed = <<"ERROR: Path to SYNTHIA dataset does not exist.">>
                  \/ \E b \in BasePaths :
                        /\ b \in dirs
                        /\ last'.excPath = SplitPath(b, RAND_CITYSCAPES)
                        /\ last'.excPath \notin DOMAIN files
         /\ driver'.alive => driver'.base_path \in dirs']_vars

\* A construction over the missing root has just raised, carrying the root;
\* the driver built earlier over the data root is untouched.
C11_Witness ==
    /\ last.op = "__init__"
    /\ last.exc = "IOError"
    /\ last.excPath = MissingRoot
    /\ MissingRoot \notin dirs
    /\ driver.alive
    /\ driver.base_path = DataRoot

\* The orientations the conversion loop of a sequence goes through.
Processed(sequence) ==
    IF sequence = RAND_CITYSCAPES THEN {"F"} ELSE Range(Directions)

\* The label images on disk.
PngPaths(fs) == {p \in DOMAIN fs : p[Len(p)][2] = "png"}

\* C12: a _preprocessing step whose conversion loop completes leaves, for
\* each processed orientation, a LABELS_NPY directory that holds exactly one
\* array per label image of the LABELS directory (the image's stem with the
\* extension npy, the image's pixels) and nothing else; the processed
\* orientations are all four for an ordinary sequence and F alone for
\* RAND_CITYSCAPES, whose other output directories are left as they were;
\* the label images are the same files with the same contents afterwards.
C12_ConversionExact ==
    [][(last'.op = "_preprocessing" /\ runs' = runs + 1 /\ last'.exc # "OSError") =>
         /\ \A d \in Range(Directions) :
            \A inpath \in {GtDir(driver.base_path, last'.seq, "LABELS", d)},
               outpath \in {GtDir(driver.base_path, last'.seq, "LABELS_NPY", d)} :
            \A images \in {ListDir(dirs, files, inpath)},
               arrays \in {ListDir(dirs', files', outpath)} :
                  IF d \in Processed(last'.seq)
                  THEN /\ outpath \in dirs'
                       /\ arrays = {NpySaveName(Stem(n)) : n \in images}
                       /\ Cardinality(arrays) = Cardinality(images)
                       /\ \A n \in images :
                             files'[Join(outpath, <<NpySaveName(Stem(n))>>)]
                               = NpyFile(files[Join(inpath, <<n>>)].data)
                  ELSE /\ outpath \in dirs' <=> outpath \in dirs
                       /\ arrays = ListDir(dirs, files, outpath)
         /\ PngPaths(files') = PngPaths(files)
         /\ \A p \in PngPaths(files) : files'[p] = files[p]]_vars

\* Both sequences have been converted: the base collection has its three
\* front arrays and no output directory for orientation B; the other sequence
\* has three front arrays, one array for orientation B, and the output of the
\* earlier conversion is gone.
C12_Witness ==
    /\ last.op = "_preprocessing"
    /\ last.exc # "OSError"
    /\ Cardinality(ListDir(dirs, files, GtDir(DataRoot, RAND_CITYSCAPES, "LABELS_NPY", "F"))) = 3
    /\ GtDir(DataRoot, RAND_CITYSCAPES, "LABELS_NPY", "B") \notin dirs
    /\ ListDir(dirs, files, GtDir(DataRoot, OtherSequence, "LABELS_NPY", "F"))
          = {NpySaveName(id) : id \in Ids(3)}
    /\ ListDir(dirs, files, GtDir(DataRoot, OtherSequence, "LABELS_NPY", "B"))
          = {NpySaveName("a")}
    /\ \A q \in StaleFiles : q \notin DOMAIN files

-----------------------------------------------------------------------------
(* _get_data: arrays.  An array is [shape, px]: px is the sequence of its   *)
(* rows, a row the sequence of its pixels; shape is numpy's shape, so a     *)
(* pixel of a (h, w, 3) array stands for its three channels.                *)

Min(a, b) == IF a <= b THEN a ELSE b
Max(a, b) == IF a >= b THEN a ELSE b

Array(shape, px) == [shape |-> shape, px |-> px]

\* a[r0:r1, c0:c1, ...]: slice bounds beyond the array are clipped.
Slice(a, r0, r1, c0, c1) ==
    LET rows == SubSeq(a.px, r0 + 1, Min(r1, a.shape[1]))
        ncols == Max(0, Min(c1, a.shape[2]) - c0)
    IN  Array(<<Len(rows), ncols>> \o SubSeq(a.shape, 3, Len(a.shape)),
              [r \in 1..Len(rows) |-> SubSeq(rows[r], c0 + 1, Min(c1, a.shape[2]))])

\* np.flip(a, axis=0)
FlipAxis0(a) == Array(a.shape, [r \in 1..Len(a.px) |-> a.px[Len(a.px) + 1 - r]])

\* np.flip(a, axis=1)
FlipAxis1(a) ==
    Array(a.shape, [r \in 1..Len(a.px) |->
                       [c \in 1..Len(a.px[r]) |-> a.px[r][Len(a.px[r]) + 1 - c]]])

\* Rationals <<n, d>> with d > 0.
RLeq(a, b) == a[1] * b[2] <= b[1] * a[2]
RMax(a, b) == IF RLeq(a, b) THEN b ELSE a
RMin(a, b) == IF RLeq(a, b) THEN a ELSE b

\* cvRound(a / b): to the nearest integer, halves to the even one.
CvRound(a, b) ==
    LET q == a \div b
        r2 == 2 * (a % b)
    IN  IF r2 < b THEN q
        ELSE IF r2 > b THEN q + 1
        ELSE IF q % 2 = 0 THEN q ELSE q + 1

\* cv2.resize(a, None, fx=k, fy=k, interpolation=INTER_NEAREST): the output is
\* cvRound(w*k) by cvRound(h*k), and output pixel (y, x) is the source pixel
\* (min(floor(y/k), h-1), min(floor(x/k), w-1)), counting from 0.
ResizeNearest(a, k) ==
    LET h == a.shape[1]
        w == a.shape[2]
        nh == CvRound(h * k[1], k[2])
        nw == CvRound(w * k[1], k[2])
    IN  Array(<<nh, nw>> \o SubSeq(a.shape, 3, Len(a.shape)),
              [y \in 1..nh |-> [x \in 1..nw |->
                  a.px[Min(((y - 1) * k[2]) \div k[1], h - 1) + 1]
                      [Min(((x - 1) * k[2]) \div k[1], w - 1) + 1]]])

\* cv2.resize(a, None, fx=k, fy=k) of the rgb image (INTER_LINEAR): the same
\* output size; an output pixel blends the source pixels around its scaled
\* position, which lie within one pixel of the one kept here.
ResizeLinear(a, k) == ResizeNearest(a, k)

\* random.uniform(a, b) = a + (b - a) * random(): a value between the two
\* arguments, whichever is larger.  The draws are the two ends and the
\* multiples of 1/ScaleDen between them.
Uniform(a, b) ==
    LET lo == RMin(a, b)
        hi == RMax(a, b)
        top == (hi[1] * ScaleDen) \div hi[2]
    IN  {lo, hi} \cup {g \in {<<i, ScaleDen>> : i \in 1..top} : RLeq(lo, g) /\ RLeq(g, hi)}

\* Content of the sample files: the raw class code, the depth reading and the
\* intensity stored at pixel (r, c) of a w pixels wide image.
RawLabel(r, c, w) == ((r - 1) * w + (c - 1)) % 23
RawIntensity(r, c) == (r * 37 + c * 101) % 256

\* cv2.imread(rgb_filename): every pixel carries the place it was read from.
ReadRgb(h, w) ==
    Array(<<h, w, 3>>, [r \in 1..h |-> [c \in 1..w |->
                           [src |-> <<r, c>>, v |-> RawIntensity(r, c)]]])

\* cv2.imread(depth_filename, 2): a 16-bit single-channel image.
ReadDepth(h, w) == Array(<<h, w>>, [r \in 1..h |-> [c \in 1..w |-> <<r, c>>]])

\* np.load(groundtruth_filename)
LoadLabels(h, w) == Array(<<h, w>>, [r \in 1..h |-> [c \in 1..w |-> RawLabel(r, c, w)]])

-----------------------------------------------------------------------------
(* The label remapping of lines 116-126: masked assignments, in order, each *)
(* on the array as the previous ones left it.                               *)

RemapAssignments ==
    << <<12, 11>>, <<13, 12>>, <<14, 0>>, <<15, 7>>, <<16, 0>>, <<17, 11>>,
       <<18, 8>>, <<19, 8>>, <<20, 0>>, <<21, 0>>, <<22, 12>> >>

\* The first two assignments in the opposite order.
RemapAssignmentsSwapped ==
    << <<13, 12>>, <<12, 11>>, <<14, 0>>, <<15, 7>>, <<16, 0>>, <<17, 11>>,
       <<18, 8>>, <<19, 8>>, <<20, 0>>, <<21, 0>>, <<22, 12>> >>

RECURSIVE ApplyAssignments(_, _, _)
ApplyAssignments(v, assignments, i) ==
    IF i > Len(assignments) THEN v
    ELSE ApplyAssignments(IF v = assignments[i][1] THEN assignments[i][2] ELSE v,
                          assignments, i + 1)

RemapValueSwapped(v) == ApplyAssignments(v, RemapAssignmentsSwapped, 1)

\* What lines 116-126 leave in a pixel that held v.
RemapValue(v) == ApplyAssignments(v, RemapAssignments, 1)

\* The assignments run twice over the array.
RemapLabelsTwice(a) ==
    Array(a.shape, [r \in 1..Len(a.px) |->
                       [c \in 1..Len(a.px[r]) |-> RemapValue(RemapValue(a.px[r][c]))]])

RemapLabels(a) ==
    Array(a.shape, [r \in 1..Len(a.px) |-> [c \in 1..Len(a.px[r]) |-> RemapValue(a.px[r][c])]])

-----------------------------------------------------------------------------
(* _get_data, stage by stage.                                               *)

Aug == driver.config["augmentation"]

\* The keys lines 131-135 read, in the order they are read.
AugKeysRead == <<"scale", "crop", "hflip", "vflip", "gamma">>

\* Lines 164-166: lut[v] = ((v / 255.0) ** (1/k)) * 255 truncated to uint8, the
\* largest x with (x/255)^n <= (v/255)^d for k = n/d.
Lut(k, v) ==
    CHOOSE x \in 0..255 :
        /\ (x ^ k[1]) * (255 ^ k[2]) <= (255 ^ k[1]) * (v ^ k[2])
        /\ x = 255 \/ (255 ^ k[1]) * (v ^ k[2]) < ((x + 1) ^ k[1]) * (255 ^ k[2])

\* The exponents drawn for the gamma stage: those of 1/2, 1 and 2 that lie
\* between the two ends of the configured range.
GammaDraws(a, b) ==
    {g \in {<<1, 2>>, <<1, 1>>, <<2, 1>>} : RLeq(RMin(a, b), g) /\ RLeq(g, RMax(a, b))}

ApplyLut(a, k) ==
    Array(a.shape, [r \in 1..Len(a.px) |-> [c \in 1..Len(a.px[r]) |->
                       [a.px[r][c] EXCEPT !.v = Lut(k, @)]]])

\* Lines 141-145: the three modalities resized by the same factor.
ScaleBlob(b, k) ==
    [rgb |-> ResizeLinear(b.rgb, k),
     depth |-> ResizeNearest(b.depth, k),
     labels |-> ResizeNearest(b.labels, k)]

\* The labels cut at the transposed offset.
CropBlobTransposed(b, h_c, w_c, crop) ==
    [rgb |-> Slice(b.rgb, h_c, h_c + crop, w_c, w_c + crop),
     depth |-> Slice(b.depth, h_c, h_c + crop, w_c, w_c + crop),
     labels |-> Slice(b.labels, w_c, w_c + crop, h_c, h_c + crop)]

\* Lines 151-152: blob[m] = blob[m][h_c:h_c+crop, w_c:w_c+crop, ...]
CropBlob(b, h_c, w_c, crop) ==
    [m \in {"rgb", "depth", "labels"} |-> Slice(b[m], h_c, h_c + crop, w_c, w_c + crop)]

\* Lines 155-156 and 159-160.
FlipBlob0(b) == [m \in {"rgb", "depth", "labels"} |-> FlipAxis0(b[m])]
FlipBlob1(b) == [m \in {"rgb", "depth", "labels"} |-> FlipAxis1(b[m])]

\* The sample images of the model, as <<height, width>>.
Images == { <<15, 20>>, <<17, 18>> }

\* Lines 103-114: the three files of the sample are read.
Load(img, training_format) ==
    /\ pc = "idle"
    /\ driver.alive
    /\ sample' = [h |-> img[1], w |-> img[2], training_format |-> training_format]
    /\ blob' = [rgb |-> ReadRgb(img[1], img[2]),
                depth |-> ReadDepth(img[1], img[2]),
                labels |-> LoadLabels(img[1], img[2])]
    /\ draws' = NoDraws
    /\ stages' = <<"load">>
    /\ err' = "none"
    /\ pc' = "loaded"
    /\ UNCHANGED <<driver, splitVars, trainVars>>

\* Lines 116-128.
Remap ==
    /\ pc = "loaded"
    /\ blob' = [blob EXCEPT !.labels = RemapLabels(@)]
    /\ stages' = Append(stages, "remap")
    /\ pc' = "remapped"
    /\ UNCHANGED <<driver, splitVars, trainVars, sample, draws, err>>

\* Lines 130-135: in training format the five augmentation keys are read.
ReadConfig ==
    /\ pc = "remapped"
    /\ IF ~sample.training_format
       THEN pc' = "expand" /\ err' = err
       ELSE IF \E i \in 1..Len(AugKeysRead) : AugKeysRead[i] \notin DOMAIN Aug
       THEN pc' = "error" /\ err' = "KeyError"
       ELSE pc' = "scale" /\ err' = err
    /\ UNCHANGED <<driver, splitVars, trainVars, sample, blob, draws, stages>>

\* Lines 137-145.
Scale ==
    /\ pc = "scale"
    /\ IF Aug.scale.on /\ Aug.crop.on
       THEN LET h == blob.rgb.shape[1]
                w == blob.rgb.shape[2]
                min_scale == <<Aug.crop.val, Min(h, w)>>
            IN  \E k \in Uniform(RMax(min_scale, Aug.scale.val[1]), Aug.scale.val[2]) :
                  /\ blob' = ScaleBlob(blob, k)
                  /\ draws' = [draws EXCEPT !.k = k]
                  /\ stages' = Append(stages, "scale")
       ELSE UNCHANGED <<blob, draws, stages>>
    /\ pc' = "crop"
    /\ UNCHANGED <<driver, splitVars, trainVars, sample, err>>

\* Lines 147-152.  random.randint(0, n) raises ValueError when n < 0.
Crop ==
    /\ pc = "crop"
    /\ IF ~Aug.crop.on
       THEN pc' = "hflip" /\ UNCHANGED <<blob, draws, stages, err>>
       ELSE LET h == blob.rgb.shape[1]
                w == blob.rgb.shape[2]
                crop == Aug.crop.val
            IN  IF h - crop < 0 \/ w - crop < 0
                THEN pc' = "error" /\ err' = "ValueError" /\ UNCHANGED <<blob, draws, stages>>
                ELSE \E h_c \in 0..(h - crop), w_c \in 0..(w - crop) :
                       /\ blob' = CropBlob(blob, h_c, w_c, crop)
                       /\ draws' = [draws EXCEPT !.h_c = h_c, !.w_c = w_c]
                       /\ stages' = Append(stages, "crop")
                       /\ pc' = "hflip"
                       /\ err' = err
    /\ UNCHANGED <<driver, splitVars, trainVars, sample>>

\* Lines 154-156.
HFlip ==
    /\ pc = "hflip"
    /\ IF Aug.hflip.on
       THEN \E coin \in {0, 1} :
              /\ blob' = IF coin = 1 THEN FlipBlob0(blob) ELSE blob
              /\ draws' = [draws EXCEPT !.hflip = coin]
              /\ stages' = Append(stages, "hflip")
       ELSE UNCHANGED <<blob, draws, stages>>
    /\ pc' = "vflip"
    /\ UNCHANGED <<driver, splitVars, trainVars, sample, err>>

\* Lines 158-160.
VFlip ==
    /\ pc = "vflip"
    /\ IF Aug.vflip.on
       THEN \E coin \in {0, 1} :
              /\ blob' = IF coin = 1 THEN FlipBlob1(blob) ELSE blob
              /\ draws' = [draws EXCEPT !.vflip = coin]
              /\ stages' = Append(stages, "vflip")
       ELSE UNCHANGED <<blob, draws, stages>>
    /\ pc' = "gamma"
    /\ UNCHANGED <<driver, splitVars, trainVars, sample, err>>

\* Lines 162-166.
Gamma ==
    /\ pc = "gamma"
    /\ IF Aug.gamma.on
       THEN \E k \in GammaDraws(Aug.gamma.val[1], Aug.gamma.val[2]) :
              /\ blob' = [blob EXCEPT !.rgb = ApplyLut(@, k)]
              /\ draws' = [draws EXCEPT !.gamma = k]
              /\ stages' = Append(stages, "gamma")
       ELSE UNCHANGED <<blob, draws, stages>>
    /\ pc' = "onehot"
    /\ UNCHANGED <<driver, splitVars, trainVars, sample, err>>

\* Lines 168-170: the name one_hot_lookup is bound nowhere in the module, so
\* evaluating the comparison raises NameError.
OneHot ==
    /\ pc = "onehot"
    /\ pc' = "error"
    /\ err' = "NameError"
    /\ UNCHANGED <<driver, splitVars, trainVars, sample, blob, draws, stages>>

\* Line 174: np.expand_dims(blob['depth'], 3) on the two-dimensional depth
\* array; numpy places an axis beyond the last one at the end.
ExpandDims ==
    /\ pc = "expand"
    /\ blob' = [blob EXCEPT !.depth = Array(Append(@.shape, 1), @.px)]
    /\ stages' = Append(stages, "expand")
    /\ pc' = "trim"
    /\ UNCHANGED <<driver, splitVars, trainVars, sample, draws, err>>

\* Lines 176-183.
ForceMultiple16 ==
    /\ pc = "trim"
    /\ LET h == blob.rgb.shape[1]
           w == blob.rgb.shape[2]
           h_c == h - (h % 16)
           w_c == w - (w % 16)
       IN  blob' = IF h_c # h \/ w_c # w
                   THEN [m \in {"rgb", "depth", "labels"} |-> Slice(blob[m], 0, h_c, 0, w_c)]
                   ELSE blob
    /\ stages' = Append(stages, "trim")
    /\ pc' = "done"
    /\ UNCHANGED <<driver, splitVars, trainVars, sample, draws, err>>

\* The call has returned its blob or raised; the caller makes the next call.
Return ==
    /\ pc \in {"done", "error"}
    /\ pc' = "idle"
    /\ sample' = IdleSample
    /\ blob' = IdleBlob
    /\ draws' = NoDraws
    /\ stages' = <<>>
    /\ err' = "none"
    /\ UNCHANGED <<driver, splitVars, trainVars>>

-----------------------------------------------------------------------------
(* SpecData: a driver constructed with one of the augmentation              *)
(* configurations below serves _get_data calls.                             *)

\* A full configuration, sized for the sample images.
AugFull ==
    [crop |-> On(16), scale |-> On(<<<<9, 10>>, <<11, 10>>>>), vflip |-> Flag(TRUE),
     hflip |-> Flag(FALSE), gamma |-> On(<<<<3, 10>>, <<2, 1>>>>)]

\* The default scale range with a crop larger than the images.
AugLargeCrop ==
    [crop |-> On(24), scale |-> On(<<<<7, 10>>, <<15, 10>>>>), vflip |-> Flag(FALSE),
     hflip |-> Flag(TRUE), gamma |-> Off(NoRange)]

\* split_test_data (bayes_fusion.py lines 22-24): every key False.
AugAllFalse ==
    [crop |-> Off(0), scale |-> Off(NoRange), vflip |-> Flag(FALSE), hflip |-> Flag(FALSE),
     gamma |-> Off(NoRange), rotate |-> Flag(FALSE), shear |-> Flag(FALSE),
     contrast |-> Flag(FALSE), brightness |-> Flag(FALSE)]

\* Only the crop stage named: the other keys are absent.
AugCropOnly == [crop |-> On(16)]

\* Every key but gamma.
AugNoGammaKey ==
    [crop |-> On(16), scale |-> Off(NoRange), vflip |-> Flag(TRUE), hflip |-> Flag(TRUE)]

\* Scale switched off, the other geometric stages on.
AugNoScale ==
    [crop |-> On(16), scale |-> Off(NoRange), vflip |-> Flag(TRUE), hflip |-> Flag(TRUE),
     gamma |-> Off(NoRange)]

\* Crop switched off, scale on.
AugNoCrop ==
    [crop |-> Off(0), scale |-> On(<<<<7, 10>>, <<15, 10>>>>), vflip |-> Flag(TRUE),
     hflip |-> Flag(FALSE), gamma |-> On(<<<<3, 10>>, <<2, 1>>>>)]

Augmentations ==
    {AugFull, AugLargeCrop, AugAllFalse, AugCropOnly, AugNoGammaKey, AugNoScale, AugNoCrop}

DataConfigs == {[augmentation |-> a] : a \in Augmentations}

InitData ==
    /\ files = [q \in {SplitPath(DataRoot, RAND_CITYSCAPES)} |-> JsonSplit(<<"a", "b">>, <<"c">>)]
    /\ dirs = {DataRoot, Join(DataRoot, <<C(RAND_CITYSCAPES)>>)}
    /\ \E dc \in DataConfigs :
          driver = NewDriver(DataRoot, dc, files[SplitPath(DataRoot, RAND_CITYSCAPES)])
    /\ last = [NoCall EXCEPT !.op = "__init__"]
    /\ runs = 0
    /\ genCount = [s \in Sequences |-> 0]
    /\ DataIdle
    /\ TrainIdle

NextData ==
    \/ \E img \in Images, training_format \in BOOLEAN : Load(img, training_format)
    \/ Remap
    \/ ReadConfig
    \/ Scale
    \/ Crop
    \/ HFlip
    \/ VFlip
    \/ Gamma
    \/ OneHot
    \/ ExpandDims
    \/ ForceMultiple16
    \/ Return

SpecData == InitData /\ [][NextData]_vars

-----------------------------------------------------------------------------
(* Properties of _get_data (checked under SpecData).                        *)

\* The canonical code of each raw code 0..22, as a table indexed from 1.
CanonicalTable ==
    <<0, 1, 2, 3, 4, 5, 6, 7, 8, 9, 10, 11, 11, 12, 0, 7, 0, 11, 8, 8, 0, 0, 12>>

Rows(a) == 1..a.shape[1]
Cols(a) == 1..a.shape[2]

\* C3: applying the remapping to the already remapped labels changes nothing.
C3_RemapIdempotent ==
    pc = "remapped" => RemapLabels(blob.labels) = blob.labels

\* C3 (amended): a second application changes no pixel whose raw code is
\* other than 13 and 22; a pixel that held 13 or 22 holds 12 after the first
\* application and a second application would turn it into 11.
C3_RemapIdempotentOffTwelve ==
    pc = "remapped" =>
        \A r \in Rows(blob.labels), c \in Cols(blob.labels) :
            LET v == blob.labels.px[r][c]
            IN  IF RawLabel(r, c, sample.w) \in {13, 22}
                THEN v = 12 /\ RemapValue(v) = 11
                ELSE RemapValue(v) = v

\* Remapped labels that hold 12 where the file held 13, and 11 where it held
\* 12.
C3_Witness ==
    /\ pc = "remapped"
    /\ RawLabel(1, 14, sample.w) = 13
    /\ blob.labels.px[1][14] = 12
    /\ blob.labels.px[1][13] = 11

\* C4: the factor drawn by the scale stage is at least crop / min(h, w), so
\* the resized image is at least crop pixels high and wide and the crop stage
\* finds a valid offset range.
C4_ScaleFloor ==
    "scale" \in Range(stages) =>
        /\ draws.k[1] * Min(sample.h, sample.w) >= Aug.crop.val * draws.k[2]
        /\ pc = "crop" => /\ blob.rgb.shape[1] >= Aug.crop.val
                          /\ blob.rgb.shape[2] >= Aug.crop.val
        /\ err # "ValueError"

\* C5: with every augmentation stage switched off, a call in either format
\* returns a blob whose rgb, depth and labels arrays have the shapes
\* (H, W, 3), (H, W, 1) and (H, W) or (H, W, 13), H and W multiples of 16,
\* holding the top-left H by W pixels of the sample.
C5_BlobShapes ==
    (pc \in {"done", "error"} /\ Aug = AugAllFalse) =>
        /\ pc = "done"
        /\ LET H == blob.rgb.shape[1]
               W == blob.rgb.shape[2]
           IN  /\ H % 16 = 0 /\ W % 16 = 0
               /\ H = sample.h - (sample.h % 16) /\ W = sample.w - (sample.w % 16)
               /\ blob.rgb.shape = <<H, W, 3>>
               /\ blob.depth.shape = <<H, W, 1>>
               /\ blob.labels.shape = IF sample.training_format THEN <<H, W, 13>> ELSE <<H, W>>
               /\ \A r \in 1..H, c \in 1..W :
                     /\ blob.rgb.px[r][c].src = <<r, c>>
                     /\ blob.depth.px[r][c] = <<r, c>>

\* C6: a training-format call returns labels that are the one-hot encoding of
\* the canonical label array over a trailing axis of size 13: at every pixel
\* exactly one entry is 1, the one at the pixel's canonical code.
C6_OneHotLabels ==
    (sample.training_format /\ pc \in {"done", "error"} /\ Aug = AugAllFalse) =>
        /\ pc = "done"
        /\ Len(blob.labels.shape) = 3
        /\ blob.labels.shape[3] = 13
        /\ \A r \in Rows(blob.labels), c \in Cols(blob.labels) :
              LET v == blob.labels.px[r][c]
                  src == blob.depth.px[r][c]
              IN  /\ Len(v) = 13
                  /\ \A i \in 1..13 :
                        v[i] = IF i = RemapValue(RawLabel(src[1], src[2], sample.w)) + 1
                               THEN 1 ELSE 0

\* C7: in a training-format call, a stage whose key is false or absent in the
\* augmentation configuration raises no error for its key and does not run.
C7_StagesToggledByOwnKey ==
    sample.training_format =>
        \A i \in 1..Len(AugKeysRead) :
            LET key == AugKeysRead[i]
            IN  (key \notin DOMAIN Aug \/ ~Aug[key].on) =>
                    /\ err # "KeyError"
                    /\ key \notin Range(stages)

\* C8: the remapping sends every raw code 0..22 to the canonical code of the
\* table, within 0..12; every call, in either format and whatever is drawn
\* later, runs it once, right after loading and before any other stage, and
\* it leaves in each pixel the canonical code of the pixel's raw code.
C8_RemapOnceBeforeAugmentation ==
    /\ \A code \in 0..22 :
          RemapValue(code) = CanonicalTable[code + 1] /\ RemapValue(code) \in 0..12
    /\ pc \notin {"idle", "loaded"} =>
          /\ Len(stages) >= 2
          /\ stages[1] = "load"
          /\ stages[2] = "remap"
          /\ \A i \in 3..Len(stages) : stages[i] # "remap"
    /\ pc = "loaded" => stages = <<"load">>
    /\ pc = "remapped" =>
          /\ blob.labels.shape = <<sample.h, sample.w>>
          /\ \A r \in 1..sample.h, c \in 1..sample.w :
                blob.labels.px[r][c] = CanonicalTable[RawLabel(r, c, sample.w) + 1]

\* An evaluation-format call right after the remapping, a pixel that held 22
\* now holding 12.
C8_Witness ==
    /\ pc = "remapped"
    /\ ~sample.training_format
    /\ RawLabel(2, 3, sample.w) = 22
    /\ blob.labels.px[2][3] = 12

\* The place of the sample the pixel at row r, column c comes from once the
\* geometric stages have run on an H by W result, by the draws of the call.
DrawnSource(r, c, H, W) ==
    LET r1 == IF draws.hflip = 1 THEN H + 1 - r ELSE r
        c1 == IF draws.vflip = 1 THEN W + 1 - c ELSE c
        r2 == IF "crop" \in Range(stages) THEN r1 + draws.h_c ELSE r1
        c2 == IF "crop" \in Range(stages) THEN c1 + draws.w_c ELSE c1
    IN  IF "scale" \in Range(stages)
        THEN << Min(((r2 - 1) * draws.k[2]) \div draws.k[1], sample.h - 1) + 1,
                Min(((c2 - 1) * draws.k[2]) \div draws.k[1], sample.w - 1) + 1 >>
        ELSE <<r2, c2>>

-----------------------------------------------------------------------------
(* The training experiment.  The network, the dataset and the experiment    *)
(* tracker are collaborators: each call on them either returns or raises.   *)

Call(fn, arg) == [fn |-> fn, arg |-> arg]

\* Values of the starting_weights configuration entry.
Weights(kind, filename, items) == [kind |-> kind, filename |-> filename, items |-> items]
NoWeights == Weights("none", "", <<>>)
Washington == Weights("washington", "", <<>>)
FromExperiment == Weights("dict", "weights.npz", <<>>)
StartingWeights ==
    {NoWeights, Washington, FromExperiment,
     Weights("list", "", <<>>), Weights("list", "", <<Washington, FromExperiment>>)}

\* Python's truth value of a starting_weights entry (line 58).
Truthy(sw) == sw.kind # "none" /\ ~(sw.kind = "list" /\ sw.items = <<>>)

\* Lines 26-41: the calls import_startingweights makes.
RECURSIVE ImportStartingWeights(_)
RECURSIVE ImportEach(_, _)
ImportStartingWeights(sw) ==
    IF sw.kind = "washington"
    THEN <<Call("import_weights", "darnn/FCN_weights_40000.npz")>>
    ELSE IF sw.kind = "dict"
    THEN <<Call("print", "INFO: Loading weights from experiment"),
           Call("get_artifact", sw.filename),
           Call("import_weights", sw.filename)>>
    ELSE IF sw.kind = "list" THEN ImportEach(sw.items, 1)
    ELSE <<>>

\* Lines 40-41: the loop over a list of starting weights.
ImportEach(items, i) ==
    IF i > Len(items) THEN <<>>
    ELSE ImportStartingWeights(items[i]) \o ImportEach(items, i + 1)

\* How net.fit can end.
FitOutcomes == {"returned", "KeyboardInterrupt", "FitError"}

\* Files the training loop may leave in the output directory, and the file
\* export_weights writes there.
FitFiles == {"events", "checkpoint"}
WeightsFile == "weights.npz"

\* A handler that lets the KeyboardInterrupt go on instead of recording it.
FitContinuationReraise(outcome) ==
    IF outcome = "returned"
    THEN [timeout |-> "False", raised |-> "none", pc |-> "export", printed |-> <<>>]
    ELSE [timeout |-> "unbound", raised |-> outcome, pc |-> "exit", printed |-> <<>>]

\* Lines 61-66: what follows net.fit.  A return binds timeout to False, a
\* KeyboardInterrupt is caught and binds it to True; any other exception
\* leaves train_network.
FitContinuation(outcome) ==
    IF outcome = "returned"
    THEN [timeout |-> "False", raised |-> "none", pc |-> "export", printed |-> <<>>]
    ELSE IF outcome = "KeyboardInterrupt"
    THEN [timeout |-> "True", raised |-> "none", pc |-> "export",
          printed |-> <<Call("print", "WARNING: Got Keyboard Interrupt, will save weights and close")>>]
    ELSE [timeout |-> "unbound", raised |-> outcome, pc |-> "exit", printed |-> <<>>]

\* create_directories (lines 10-23), called at line 82: os.mkdir raises when
\* the run's directory is already there.
CreateDirectories ==
    /\ tpc = "idle"
    /\ IF outdir.exists
       THEN /\ raised' = "OSError"
            /\ tpc' = "done"
            /\ UNCHANGED outdir
       ELSE /\ outdir' = [exists |-> TRUE, names |-> {}]
            /\ tpc' = "model"
            /\ UNCHANGED raised
    /\ UNCHANGED <<net, timeout, fitted, pending, calls>>
    /\ UNCHANGED <<driver, splitVars, dataVars>>

\* Lines 85-86: the model is constructed and its context entered.
EnterModel ==
    /\ tpc = "model"
    /\ \E ok \in BOOLEAN :
         IF ok
         THEN /\ net' = "open"
              /\ calls' = Append(calls, Call("__enter__", ""))
              /\ tpc' = "setup"
              /\ UNCHANGED raised
         ELSE /\ raised' = "ModelError"
              /\ tpc' = "done"
              /\ UNCHANGED <<net, calls>>
    /\ UNCHANGED <<outdir, timeout, fitted, pending>>
    /\ UNCHANGED <<driver, splitVars, dataVars>>

\* Lines 51-59: the dataset, the validation set and the starting weights.
Setup ==
    /\ tpc = "setup"
    /\ \E ok \in BOOLEAN, sw \in StartingWeights :
         IF ok
         THEN /\ calls' = calls \o (IF Truthy(sw) THEN ImportStartingWeights(sw) ELSE <<>>)
              /\ tpc' = "fit"
              /\ UNCHANGED raised
         ELSE /\ raised' = "SetupError"
              /\ tpc' = "exit"
              /\ UNCHANGED calls
    /\ UNCHANGED <<net, outdir, timeout, fitted, pending>>
    /\ UNCHANGED <<driver, splitVars, dataVars>>

\* Lines 61-66: net.fit and the handler around it.
Fit ==
    /\ tpc = "fit"
    /\ \E outcome \in FitOutcomes, written \in SUBSET FitFiles :
         LET k == FitContinuation(outcome)
         IN  /\ fitted' = outcome
             /\ outdir' = [outdir EXCEPT !.names = @ \cup written]
             /\ calls' = Append(calls, Call("fit", "")) \o k.printed
             /\ timeout' = k.timeout
             /\ raised' = k.raised
             /\ tpc' = k.pc
    /\ UNCHANGED <<net, pending>>
    /\ UNCHANGED <<driver, splitVars, dataVars>>

\* Line 69: net.export_weights()
ExportWeights ==
    /\ tpc = "export"
    /\ calls' = Append(calls, Call("export_weights", ""))
    /\ \E ok \in BOOLEAN :
         IF ok
         THEN /\ outdir' = [outdir EXCEPT !.names = @ \cup {WeightsFile}]
              /\ tpc' = "listdir"
              /\ UNCHANGED raised
         ELSE /\ raised' = "ExportError"
              /\ tpc' = "exit"
              /\ UNCHANGED outdir
    /\ UNCHANGED <<net, timeout, fitted, pending>>
    /\ UNCHANGED <<driver, splitVars, dataVars>>

\* Line 72: os.listdir(output_dir), evaluated once when the loop starts.
ListOutputDir ==
    /\ tpc = "listdir"
    /\ pending' = outdir.names
    /\ tpc' = "artifacts"
    /\ UNCHANGED <<net, outdir, timeout, fitted, calls, raised>>
    /\ UNCHANGED <<driver, splitVars, dataVars>>

\* Line 73: one iteration of the loop, in the listing's arbitrary order.
AddArtifact ==
    /\ tpc = "artifacts"
    /\ pending # {}
    /\ \E filename \in pending, ok \in BOOLEAN :
         /\ calls' = Append(calls, Call("add_artifact", filename))
         /\ IF ok
            THEN /\ pending' = pending \ {filename}
                 /\ UNCHANGED <<tpc, raised>>
            ELSE /\ raised' = "ArtifactError"
                 /\ tpc' = "exit"
                 /\ UNCHANGED pending
    /\ UNCHANGED <<net, outdir, timeout, fitted>>
    /\ UNCHANGED <<driver, splitVars, dataVars>>

\* Lines 75-76: after the loop, TimeoutInterrupt is raised when timeout is set.
RaiseTimeout ==
    /\ tpc = "artifacts"
    /\ pending = {}
    /\ IF timeout = "True"
       THEN /\ raised' = "TimeoutInterrupt"
            /\ calls' = Append(calls, Call("raise", "TimeoutInterrupt"))
       ELSE UNCHANGED <<raised, calls>>
    /\ tpc' = "exit"
    /\ UNCHANGED <<net, outdir, timeout, fitted, pending>>
    /\ UNCHANGED <<driver, splitVars, dataVars>>

\* Line 86: the with statement leaves its body, by return or by exception,
\* and the network context is released; an exception goes on to the caller.
ExitModel ==
    /\ tpc = "exit"
    /\ net' = "released"
    /\ calls' = Append(calls, Call("__exit__", raised))
    /\ tpc' = "done"
    /\ UNCHANGED <<outdir, timeout, fitted, pending, raised>>
    /\ UNCHANGED <<driver, splitVars, dataVars>>

\* One run of my_main; the run's directory may be left over from a run with
\* the same id.
InitTrain ==
    /\ dirs = {}
    /\ files = <<>>
    /\ driver = NoDriver
    /\ last = NoCall
    /\ runs = 0
    /\ genCount = [s \in Sequences |-> 0]
    /\ DataIdle
    /\ tpc = "idle"
    /\ net = "none"
    /\ \E exists \in BOOLEAN : outdir = [exists |-> exists, names |-> {}]
    /\ timeout = "unbound"
    /\ fitted = "no"
    /\ pending = {}
    /\ calls = <<>>
    /\ raised = "none"

NextTrain ==
    \/ CreateDirectories
    \/ EnterModel
    \/ Setup
    \/ Fit
    \/ ExportWeights
    \/ ListOutputDir
    \/ AddArtifact
    \/ RaiseTimeout
    \/ ExitModel

SpecTrain == InitTrain /\ [][NextTrain]_vars

-----------------------------------------------------------------------------
(* Properties of a training run (checked under SpecTrain).                  *)

\* The positions in `calls` of the calls of one function.
CallsOf(fn) == {i \in DOMAIN calls : calls[i].fn = fn}

\* The names add_artifact has been called with.
Added == {calls[i].arg : i \in CallsOf("add_artifact")}

\* C13: once net.fit has returned or been interrupted by KeyboardInterrupt,
\* export_weights is called exactly once, and never more than once on any
\* path; every add_artifact call comes after it and no file is added twice;
\* when export_weights and every add_artifact have returned, the files added
\* are exactly the files of the output directory and TimeoutInterrupt leaves
\* train_network if and only if fit was interrupted; TimeoutInterrupt is
\* raised only after the export and after every file has been added; the
\* network context stays open until the body of the with statement is left
\* and is released when my_main ends, whichever way fit ended.
C13_ExportArtifactsThenTimeout ==
    LET exports == CallsOf("export_weights")
        adds == CallsOf("add_artifact")
        timeouts == CallsOf("raise")
        fitEnded == fitted \in {"returned", "KeyboardInterrupt"}
    IN  /\ Cardinality(exports) <= 1
        /\ fitted \in {"no", "FitError"} => exports = {}
        /\ (fitEnded /\ tpc \in {"listdir", "artifacts", "exit", "done"}) =>
              Cardinality(exports) = 1
        /\ \A a \in adds : \E e \in exports : e < a
        /\ \A a, b \in adds : calls[a].arg = calls[b].arg => a = b
        /\ (fitEnded /\ tpc \in {"exit", "done"} /\ raised \in {"none", "TimeoutInterrupt"}) =>
              /\ Added = outdir.names
              /\ WeightsFile \in Added
              /\ raised = "TimeoutInterrupt" <=> fitted = "KeyboardInterrupt"
        /\ raised = "TimeoutInterrupt" <=> timeouts # {}
        /\ \A t \in timeouts :
              /\ fitted = "KeyboardInterrupt"
              /\ Added = outdir.names
              /\ \A a \in adds : a < t
              /\ \E e \in exports : e < t
              /\ \A i \in CallsOf("__exit__") : t < i
        /\ net = "open" <=> tpc \in {"setup", "fit", "export", "listdir", "artifacts", "exit"}
        /\ (tpc = "done" /\ fitted # "no") =>
              /\ net = "released"
              /\ Cardinality(CallsOf("__exit__")) = 1
              /\ calls[Len(calls)] = Call("__exit__", raised)

\* An interrupted run has ended: the weights and the two files of the training
\* loop were added, TimeoutInterrupt left my_main, the context is released.
C13_Witness ==
    /\ tpc = "done"
    /\ fitted = "KeyboardInterrupt"
    /\ raised = "TimeoutInterrupt"
    /\ net = "released"
    /\ Added = FitFiles \cup {WeightsFile}
    /\ Cardinality(CallsOf("export_weights")) = 1

\* A run whose fit returned has ended without an exception.
C13_WitnessReturned ==
    /\ tpc = "done"
    /\ fitted = "returned"
    /\ raised = "none"
    /\ net = "released"
    /\ Added = FitFiles \cup {WeightsFile}
====
